---- MODULE Spec2Model ----
(***************************************************************************)
(* Model of main.py: the edge cost model (Arista.peso_efectivo), the       *)
(* array-backed binary heap (MinHeap) and Prim's traversal (prim).         *)
(*                                                                         *)
(* Weights are Python floats in the source.  The model keeps them exact,   *)
(* in hundredths (Escala): 2.4 is 240, 6.25 is 625.  Positive infinity is  *)
(* a separate value that compares as IEEE infinity does.  Heap indices are *)
(* the source's 0-based indices; a TLA+ sequence is 1-based, so the        *)
(* element at index i is lista[i + 1].                                     *)
(***************************************************************************)
EXTENDS Integers, Sequences, FiniteSets, TLC

VARIABLES
    grafo,          \* dict[Nodo, list[tuple[Nodo, Arista]]] given to prim
    POI_inicial,    \* start node given to prim
    pc,             \* position: "call", "loop", "done", "error" (prim); "heap" (direct heap use)
    mst,            \* prim's local mst
    visitados,      \* prim's local visitados
    lista,          \* MinHeap.lista of the heap in use (prim's cola)
    err,            \* exception raised by the last operation, or "none"
    npush,          \* number of encolar calls so far
    npop,           \* number of desencolar calls so far
    forma,          \* direct heap use: shape of the call history
    salida          \* direct heap use: entries returned by the pops of the current run

vars == <<grafo, POI_inicial, pc, mst, visitados, lista, err, npush, npop, forma, salida>>

-----------------------------------------------------------------------------
(* Bounds *)

MaxEntradas == 3    \* adjacency entries of an enumerated graph, summed over its nodes
MaxHeap == 5        \* entries of a directly used heap
MaxOps == 10        \* calls made on a directly used heap

-----------------------------------------------------------------------------
(* Estado, Arista, peso_efectivo *)

HABILITADO == 1
CERRADO == 2
AGRIETADO == 3

Arista(min, max, estado) == [min |-> min, max |-> max, estado |-> estado]

Escala == 100

Inf == [inf |-> TRUE, val |-> 0]

Finito(x) == [inf |-> FALSE, val |-> x]

\* x < y on floats (no NaN arises): inf < inf is false
Menor(x, y) == ~x.inf /\ (y.inf \/ x.val < y.val)

Mayor(x, y) == Menor(y, x)

MenorIgual(x, y) == ~Menor(y, x)

severidad == (HABILITADO :> 20) @@ (AGRIETADO :> 65)

penalizacion == (HABILITADO :> 0) @@ (AGRIETADO :> 2 * Escala)

\* a + t * (b - a), with t in hundredths and the result in hundredths
interpolacion_lineal(t, a, b) == Escala * a + t * (b - a)

\* peso_efectivo that forgets the fixed penalty
peso_efectivo_sin_penalizacion(arista) ==
    IF arista.estado = CERRADO
    THEN Inf
    ELSE Finito(interpolacion_lineal(severidad[arista.estado], arista.min, arista.max))

peso_efectivo(arista) ==
    IF arista.estado = CERRADO
    THEN Inf
    ELSE Finito(interpolacion_lineal(severidad[arista.estado], arista.min, arista.max)
                + penalizacion[arista.estado])

-----------------------------------------------------------------------------
(* MinHeap *)

Elemento(inicio, fin, arista) == [inicio |-> inicio, fin |-> fin, arista |-> arista]

padre(i) == (i - 1) \div 2

hijo_izquierdo(i) == 2 * i + 1

hijo_derecho(i) == 2 * i + 2

\* intercambiar that stores one way only: the entry at i is overwritten
intercambiar_pisa(l, i, j) == [l EXCEPT ![i + 1] = l[j + 1]]

intercambiar(l, i, j) == [l EXCEPT ![i + 1] = l[j + 1], ![j + 1] = l[i + 1]]

peso(l, i) == peso_efectivo(l[i + 1].arista)

\* encolar without its while loop: the new entry stays where it was appended
sift_up_ausente(l, i) == l

\* the while loop of encolar
RECURSIVE sift_up(_, _)
sift_up(l, i) ==
    IF i > 0 /\ Mayor(peso(l, padre(i)), peso(l, i))
    THEN sift_up(intercambiar(l, i, padre(i)), padre(i))
    ELSE l

\* encolar that stores the two nodes of the entry the other way round
encolar_invertido(l, inicio, fin, arista) ==
    sift_up(Append(l, Elemento(fin, inicio, arista)), Len(l))

encolar(l, inicio, fin, arista) ==
    sift_up(Append(l, Elemento(inicio, fin, arista)), Len(l))

\* sift_down that never looks at the right child
RECURSIVE sift_down_sin_derecho(_, _)
sift_down_sin_derecho(l, i) ==
    LET izq == hijo_izquierdo(i)
        menor == IF izq < Len(l) /\ Menor(peso(l, izq), peso(l, i)) THEN izq ELSE i
    IN  IF menor # i
        THEN sift_down_sin_derecho(intercambiar(l, i, menor), menor)
        ELSE l

RECURSIVE sift_down(_, _)
sift_down(l, i) ==
    LET izq == hijo_izquierdo(i)
        der == hijo_derecho(i)
        m1 == IF izq < Len(l) /\ Menor(peso(l, izq), peso(l, i)) THEN izq ELSE i
        menor == IF der < Len(l) /\ Menor(peso(l, der), peso(l, m1)) THEN der ELSE m1
    IN  IF menor # i
        THEN sift_down(intercambiar(l, i, menor), menor)
        ELSE l

\* desencolar without its assert: an empty heap is treated as a heap of one
desencolar_sin_assert(l) ==
    IF Len(l) <= 1
    THEN [err |-> "IndexError", lista |-> <<>>, menor |-> <<>>]
    ELSE [err |-> "none",
          lista |-> sift_down([SubSeq(l, 1, Len(l) - 1) EXCEPT ![1] = l[Len(l)]], 0),
          menor |-> l[1]]

\* desencolar: the exception raised ("none" when it returns), the list it
\* leaves and the element it returns.  lista.pop() runs before the store to
\* lista[0], so with one element the store hits an empty list.
desencolar(l) ==
    IF Len(l) = 0
    THEN [err |-> "AssertionError", lista |-> l, menor |-> <<>>]
    ELSE IF Len(l) = 1
    THEN [err |-> "IndexError", lista |-> <<>>, menor |-> <<>>]
    ELSE [err |-> "none",
          lista |-> sift_down([SubSeq(l, 1, Len(l) - 1) EXCEPT ![1] = l[Len(l)]], 0),
          menor |-> l[1]]

-----------------------------------------------------------------------------
(* Graphs given to prim *)

NombresNodo == <<"A", "B", "C">>

Nodos == {NombresNodo[i] : i \in 1..Len(NombresNodo)}

AristaAbierta == Arista(1, 3, HABILITADO)

AristaAgrietada == Arista(2, 5, AGRIETADO)

AristaCerrada == Arista(1, 3, CERRADO)

Aristas == {AristaAbierta, AristaAgrietada, AristaCerrada}

Entrada(vecino, arista) == [vecino |-> vecino, arista |-> arista]

Entradas == {Entrada(v, a) : v \in Nodos, a \in Aristas}

\* the graph whose keys are the first n names and whose adjacency lists are
\* the consecutive pieces of s that dueno assigns to each key
GrafoDe(n, s, dueno) ==
    [x \in {NombresNodo[i] : i \in 1..n} |->
        LET i == CHOOSE j \in 1..n : NombresNodo[j] = x
            pos(m) == Cardinality({q \in 1..Len(s) : dueno[q] < i}) + m
        IN  [m \in 1..Cardinality({q \in 1..Len(s) : dueno[q] = i}) |-> s[pos(m)]]]

\* the ways to cut k adjacency entries into the lists of n keys: the key
\* index of each entry, never decreasing
Duenos(k, n) ==
    {d \in [1..k -> 1..n] : \A q \in 1..k : q > 1 => d[q - 1] <= d[q]}

\* the complete undirected graphs on the three names: each connection has
\* one Arista, listed in both directions
GrafosCompletos ==
    {("A" :> <<Entrada("B", ab), Entrada("C", ac)>>) @@
     ("B" :> <<Entrada("A", ab), Entrada("C", bc)>>) @@
     ("C" :> <<Entrada("A", ac), Entrada("B", bc)>>) :
        ab \in Aristas, ac \in Aristas, bc \in Aristas}

\* the graph literal of main()
GrafoMain ==
    ("A" :> <<Entrada("B", Arista(2, 4, HABILITADO)), Entrada("C", Arista(1, 6, AGRIETADO))>>) @@
    ("B" :> <<Entrada("A", Arista(2, 4, HABILITADO)), Entrada("D", Arista(2, 5, AGRIETADO))>>) @@
    ("C" :> <<Entrada("A", Arista(1, 6, AGRIETADO)), Entrada("D", Arista(1, 3, HABILITADO))>>) @@
    ("D" :> <<Entrada("B", Arista(2, 5, AGRIETADO)), Entrada("C", Arista(1, 3, HABILITADO))>>)

\* the graph prueba() builds from its table: one direction per row
GrafoPrueba ==
    ("a" :> <<Entrada("b", Arista(5, 20, HABILITADO)), Entrada("c", Arista(6, 28, HABILITADO))>>) @@
    ("b" :> <<Entrada("c", Arista(12, 35, HABILITADO)), Entrada("d", Arista(11, 33, HABILITADO))>>) @@
    ("c" :> <<Entrada("d", Arista(8, 25, HABILITADO)), Entrada("e", Arista(9, 27, HABILITADO))>>) @@
    ("d" :> <<Entrada("e", Arista(15, 40, HABILITADO)), Entrada("f", Arista(14, 38, HABILITADO))>>) @@
    ("e" :> <<Entrada("f", Arista(3, 18, HABILITADO)), Entrada("g", Arista(4, 19, HABILITADO))>>) @@
    ("f" :> <<Entrada("g", Arista(10, 30, HABILITADO)), Entrada("h", Arista(13, 36, HABILITADO))>>) @@
    ("g" :> <<Entrada("h", Arista(7, 22, HABILITADO))>>) @@
    ("h" :> <<Entrada("a", Arista(20, 45, HABILITADO))>>)

-----------------------------------------------------------------------------
(* prim *)

\* grafo.get(n, []): a missing key reads as a node without neighbours
buscar_con_defecto(g, n) ==
    [err |-> "none", ady |-> IF n \in DOMAIN g THEN g[n] ELSE <<>>]

\* grafo[n]: a dict lookup raises KeyError when n is not a key
buscar(g, n) ==
    IF n \in DOMAIN g
    THEN [err |-> "none", ady |-> g[n]]
    ELSE [err |-> "KeyError", ady |-> <<>>]

\* lines 103-104: every adjacency entry of the start node is pushed
RECURSIVE encolar_iniciales(_, _, _, _)
encolar_iniciales(l, inicio, ady, k) ==
    IF k > Len(ady)
    THEN l
    ELSE encolar_iniciales(encolar(l, inicio, ady[k].vecino, ady[k].arista), inicio, ady, k + 1)

\* line 108 without its test: a popped entry is admitted whatever its end node
ya_visitado_nunca(fin, vis) == FALSE

\* line 108: the popped entry is stale when its end node is already visited
ya_visitado(fin, vis) == fin \in vis

\* line 113: the test an adjacency entry of the admitted node must pass
admisible(e, vis) ==
    e.vecino \notin vis /\ Menor(peso_efectivo(e.arista), Inf)

\* lines 111-114
RECURSIVE encolar_vecinos(_, _, _, _, _)
encolar_vecinos(l, fin, ady, vis, k) ==
    IF k > Len(ady)
    THEN l
    ELSE IF admisible(ady[k], vis)
    THEN encolar_vecinos(encolar(l, fin, ady[k].vecino, ady[k].arista), fin, ady, vis, k + 1)
    ELSE encolar_vecinos(l, fin, ady, vis, k + 1)

\* line 106
condicion_while == Len(lista) > 0 /\ Cardinality(visitados) < Cardinality(DOMAIN grafo)

\* the entries pushed onto a directly used heap; two of them weigh the same
EntradasHeap ==
    {Elemento("A", "B", a) : a \in {Arista(1, 3, HABILITADO), Arista(2, 4, HABILITADO),
                                     Arista(2, 5, AGRIETADO), Arista(1, 6, AGRIETADO),
                                     Arista(1, 3, CERRADO)}}
    \cup {Elemento("A", "C", Arista(1, 3, HABILITADO))}

Init ==
    /\ \/ /\ \E n \in 1..Len(NombresNodo), k \in 0..MaxEntradas :
                \E s \in [1..k -> Entradas], dueno \in Duenos(k, n) :
                    grafo = GrafoDe(n, s, dueno)
          /\ POI_inicial \in Nodos
          /\ pc = "call"
       \/ /\ grafo \in GrafosCompletos
          /\ POI_inicial \in Nodos
          /\ pc = "call"
       \/ /\ grafo = GrafoMain
          /\ POI_inicial = "A"
          /\ pc = "call"
       \/ /\ grafo = GrafoPrueba
          /\ POI_inicial = "a"
          /\ pc = "call"
       \/ /\ grafo = <<>>
          /\ POI_inicial = ""
          /\ pc = "heap"
    /\ mst = <<>>
    /\ visitados = {}
    /\ lista = <<>>
    /\ err = "none"
    /\ npush = 0
    /\ npop = 0
    /\ forma = "push"
    /\ salida = <<>>

\* lines 99-104
PrimInit ==
    /\ pc = "call"
    /\ LET r == buscar(grafo, POI_inicial)
       IN  /\ visitados' = {POI_inicial}
           /\ lista' = encolar_iniciales(<<>>, POI_inicial, r.ady, 1)
           /\ npush' = npush + Len(r.ady)
           /\ err' = r.err
           /\ pc' = IF r.err = "none" THEN "loop" ELSE "error"
    /\ UNCHANGED <<grafo, POI_inicial, mst, npop, forma, salida>>

\* an iteration that consumes the adjacency list of the node it admits
PrimStep_consume ==
    /\ pc = "loop"
    /\ condicion_while
    /\ LET d == desencolar(lista)
           fin == d.menor.fin
           r == buscar(grafo, fin)
           vis == visitados \cup {fin}
       IN  /\ npop' = npop + 1
           /\ IF d.err # "none"
              THEN /\ lista' = d.lista
                   /\ err' = d.err
                   /\ pc' = "error"
                   /\ UNCHANGED <<mst, visitados, npush, grafo>>
              ELSE IF ya_visitado(fin, visitados)
              THEN /\ lista' = d.lista
                   /\ UNCHANGED <<mst, visitados, npush, err, pc, grafo>>
              ELSE /\ mst' = Append(mst, <<d.menor.inicio, fin, d.menor.arista>>)
                   /\ visitados' = vis
                   /\ lista' = encolar_vecinos(d.lista, fin, r.ady, vis, 1)
                   /\ npush' = npush + Cardinality({k \in 1..Len(r.ady) : admisible(r.ady[k], vis)})
                   /\ err' = r.err
                   /\ pc' = IF r.err = "none" THEN "loop" ELSE "error"
                   /\ grafo' = IF r.err = "none" THEN [grafo EXCEPT ![fin] = <<>>] ELSE grafo
    /\ UNCHANGED <<POI_inicial, forma, salida>>

\* lines 106-114: one iteration of the while loop
PrimStep ==
    /\ pc = "loop"
    /\ condicion_while
    /\ LET d == desencolar(lista)
           fin == d.menor.fin
           r == buscar(grafo, fin)
           vis == visitados \cup {fin}
       IN  /\ npop' = npop + 1
           /\ IF d.err # "none"
              THEN /\ lista' = d.lista
                   /\ err' = d.err
                   /\ pc' = "error"
                   /\ UNCHANGED <<mst, visitados, npush>>
              ELSE IF ya_visitado(fin, visitados)
              THEN /\ lista' = d.lista
                   /\ UNCHANGED <<mst, visitados, npush, err, pc>>
              ELSE /\ mst' = Append(mst, <<d.menor.inicio, fin, d.menor.arista>>)
                   /\ visitados' = vis
                   /\ lista' = encolar_vecinos(d.lista, fin, r.ady, vis, 1)
                   /\ npush' = npush + Cardinality({k \in 1..Len(r.ady) : admisible(r.ady[k], vis)})
                   /\ err' = r.err
                   /\ pc' = IF r.err = "none" THEN "loop" ELSE "error"
    /\ UNCHANGED <<grafo, POI_inicial, forma, salida>>

\* line 115
PrimReturn ==
    /\ pc = "loop"
    /\ ~condicion_while
    /\ pc' = "done"
    /\ UNCHANGED <<grafo, POI_inicial, mst, visitados, lista, err, npush, npop, forma, salida>>

\* a caller of MinHeap.encolar on a heap of its own
HeapEncolar(e) ==
    /\ pc = "heap"
    /\ Len(lista) < MaxHeap
    /\ npush + npop < MaxOps
    /\ lista' = encolar(lista, e.inicio, e.fin, e.arista)
    /\ err' = "none"
    /\ npush' = npush + 1
    /\ forma' = IF forma = "push" THEN "push" ELSE "mixed"
    /\ salida' = IF forma = "push" THEN salida ELSE <<>>
    /\ UNCHANGED <<grafo, POI_inicial, pc, mst, visitados, npop>>

\* a caller of MinHeap.desencolar on a heap of its own
HeapDesencolar ==
    /\ pc = "heap"
    /\ npush + npop < MaxOps
    /\ LET d == desencolar(lista)
       IN  /\ lista' = d.lista
           /\ err' = d.err
           /\ salida' = IF forma # "mixed" /\ d.err = "none"
                         THEN Append(salida, d.menor)
                         ELSE salida
    /\ npop' = npop + 1
    /\ forma' = IF forma = "mixed" THEN "mixed" ELSE "pop"
    /\ UNCHANGED <<grafo, POI_inicial, pc, mst, visitados, npush>>

Next ==
    \/ PrimInit
    \/ PrimStep
    \/ PrimReturn
    \/ \E e \in EntradasHeap : HeapEncolar(e)
    \/ HeapDesencolar

Spec == Init /\ [][Next]_vars

-----------------------------------------------------------------------------
(* Vocabulary of the properties *)

Claves == DOMAIN grafo

EnPrim == pc \in {"call", "loop", "done", "error"}

Terminado == pc \in {"done", "error"}

\* the adjacency entries of g as (start, end, edge) triples
Triples(g) ==
    UNION {{<<u, g[u][k].vecino, g[u][k].arista>> : k \in 1..Len(g[u])} : u \in DOMAIN g}

TriplesFinitos(g) == {t \in Triples(g) : t[3].estado # CERRADO}

\* every neighbour is a key
BienFormado(g) == \A t \in Triples(g) : t[2] \in DOMAIN g

\* every connection joins two different nodes and is listed in both
\* directions with the same edge
NoDirigido(g) == \A t \in Triples(g) : t[1] # t[2] /\ <<t[2], t[1], t[3]>> \in Triples(g)

\* the nodes reached from S along the triples of T, followed from start to end
RECURSIVE Alcance(_, _)
Alcance(T, S) ==
    LET S2 == S \cup {t[2] : t \in {x \in T : x[1] \in S}}
    IN  IF S2 = S THEN S ELSE Alcance(T, S2)

\* the component reachable from the start node through finite-weight edges
Alcanzables == Alcance(TriplesFinitos(grafo), {POI_inicial})

Simetrizado(T) == T \cup {<<t[2], t[1], t[3]>> : t \in T}

\* the spanning trees of the component: sets of finite-weight entries, as
\* many as the component has nodes less one, that connect it
ArbolesGeneradores ==
    {T \in SUBSET {t \in TriplesFinitos(grafo) : t[1] \in Alcanzables} :
        /\ Cardinality(T) = Cardinality(Alcanzables) - 1
        /\ Alcance(Simetrizado(T), {POI_inicial}) = Alcanzables}

RECURSIVE PesoTotal(_)
PesoTotal(T) ==
    IF T = {}
    THEN 0
    ELSE LET t == CHOOSE x \in T : TRUE
         IN  peso_efectivo(t[3]).val + PesoTotal(T \ {t})

AristasDelMst == {mst[i] : i \in 1..Len(mst)}

NodosDelMst == {mst[i][1] : i \in 1..Len(mst)} \cup {mst[i][2] : i \in 1..Len(mst)}

\* every key lists every other key as a neighbour, through Open or Cracked
\* edges only, and no neighbour is missing from the keys
CompletoYFinito(g) ==
    /\ BienFormado(g)
    /\ \A t \in Triples(g) : t[3].estado # CERRADO
    /\ \A u \in DOMAIN g, v \in DOMAIN g : u # v => \E t \in Triples(g) : t[1] = u /\ t[2] = v

-----------------------------------------------------------------------------
(* Properties *)

\* C1: for an undirected, well-formed graph and a start node that is a key,
\* prim returns, and the edges it returns form a spanning tree of the
\* component reachable from the start through finite-weight edges whose total
\* effective weight is the least among the spanning trees of that component.
C1_PrimDevuelveArbolMinimo ==
    (Terminado /\ POI_inicial \in Claves /\ BienFormado(grafo) /\ NoDirigido(grafo)) =>
        /\ pc = "done"
        /\ Cardinality(AristasDelMst) = Len(mst)
        /\ AristasDelMst \in ArbolesGeneradores
        /\ \A T \in ArbolesGeneradores : PesoTotal(AristasDelMst) <= PesoTotal(T)

\* C2: for a fully connected graph whose edges are all Open or Cracked and a
\* start node of it, prim returns exactly |graph| - 1 edges and the nodes
\* they touch, with the start node, are all the nodes of the graph.
C2_PrimAbarcaGrafoCompleto ==
    (Terminado /\ POI_inicial \in Claves /\ CompletoYFinito(grafo)) =>
        /\ pc = "done"
        /\ Len(mst) = Cardinality(Claves) - 1
        /\ NodosDelMst \cup {POI_inicial} = Claves

\* C3: no Closed edge is ever on the heap during prim and none is ever in
\* the MST Result, the adjacency of the start node included.
C3_NingunaCerrada ==
    EnPrim =>
        /\ \A i \in 1..Len(lista) : lista[i].arista.estado # CERRADO
        /\ \A i \in 1..Len(mst) : mst[i][3].estado # CERRADO

\* C4: when some node of an undirected, well-formed graph is not reachable
\* from the start node through finite-weight edges, prim raises nothing: it
\* returns with the heap empty and a tree that touches exactly the reachable
\* nodes.
C4_ArbolParcialSinError ==
    (Terminado /\ POI_inicial \in Claves /\ BienFormado(grafo) /\ NoDirigido(grafo)
        /\ Alcanzables # Claves) =>
        /\ pc = "done"
        /\ err = "none"
        /\ lista = <<>>
        /\ NodosDelMst \cup {POI_inicial} = Alcanzables

\* C5: in every state, whatever pushes and pops came before, no entry of the
\* heap array weighs more than either of its children.
C5_OrdenDelHeap ==
    \A i \in 0..(Len(lista) - 1) :
        /\ hijo_izquierdo(i) < Len(lista) =>
               MenorIgual(peso(lista, i), peso(lista, hijo_izquierdo(i)))
        /\ hijo_derecho(i) < Len(lista) =>
               MenorIgual(peso(lista, i), peso(lista, hijo_derecho(i)))

\* a heap of at least four entries of different weights, reached through
\* pushes that came after pops
W5_HeapMezclado ==
    /\ pc = "heap"
    /\ forma = "mixed"
    /\ Len(lista) >= 4
    /\ \E i \in 1..Len(lista) : Menor(peso(lista, 0), peso(lista, i - 1))
    /\ err = "none"
    /\ npop >= 2

\* C6: after N pushes onto an empty heap, each of the N pops that follow
\* succeeds, and the entries they return come in non-decreasing weight.
C6_ExtraccionOrdenada ==
    (pc = "heap" /\ forma = "pop" /\ npop <= npush) =>
        /\ err = "none"
        /\ Len(salida) = npop
        /\ \A i \in 1..(Len(salida) - 1) :
               MenorIgual(peso_efectivo(salida[i].arista), peso_efectivo(salida[i + 1].arista))

\* C7: desencolar on a heap with no entries raises the assertion failure and
\* leaves the heap empty.
C7_DesencolarVacio ==
    [][(pc = "heap" /\ Len(lista) = 0 /\ npop' = npop + 1) =>
           (err' = "AssertionError" /\ lista' = <<>>)]_vars

W7_FalloPorVacio == pc = "heap" /\ err = "AssertionError" /\ lista = <<>> /\ npush >= 1

\* C8: when the start node is not a key, prim raises the lookup failure
\* before anything is pushed, popped or admitted, and returns nothing.
C8_InicioAusente ==
    (EnPrim /\ pc # "call" /\ POI_inicial \notin Claves) =>
        /\ pc = "error"
        /\ err = "KeyError"
        /\ npush = 0
        /\ npop = 0
        /\ lista = <<>>
        /\ mst = <<>>

W8_InicioAusente == pc = "error" /\ POI_inicial \notin Claves /\ Claves # {}

\* C9, as stated: a graph with a neighbour that is not a key never makes
\* prim return.
C9_GrafoMalFormadoNoRetorna ==
    (EnPrim /\ ~BienFormado(grafo)) => pc # "done"

\* C9, amended: prim with a start node that is a key raises the lookup
\* failure exactly when it admits an edge whose end node is not a key, at
\* that step, and then returns nothing; a neighbour that is not a key and is
\* never admitted goes unnoticed.
C9_FalloSoloAlAdmitir ==
    (EnPrim /\ POI_inicial \in Claves) =>
        /\ (err = "KeyError") <=> (\E i \in 1..Len(mst) : mst[i][2] \notin Claves)
        /\ err = "KeyError" => (pc = "error" /\ mst[Len(mst)][2] \notin Claves)
        /\ \A i \in 1..(Len(mst) - 1) : mst[i][2] \in Claves

W9_FalloAlAdmitir ==
    /\ pc = "error"
    /\ POI_inicial \in Claves
    /\ err = "KeyError"
    /\ Len(mst) >= 1
    /\ mst[Len(mst)][2] \notin Claves

MstMain ==
    << <<"A", "B", Arista(2, 4, HABILITADO)>>,
       <<"B", "D", Arista(2, 5, AGRIETADO)>>,
       <<"D", "C", Arista(1, 3, HABILITADO)>> >>

\* C10: on the graph of main() from 'A', prim admits A-B, then B-D, then
\* D-C, returns these three edges and has visited the four nodes.
C10_EjemploMain ==
    (grafo = GrafoMain /\ POI_inicial = "A") =>
        /\ Len(mst) <= 3
        /\ mst = SubSeq(MstMain, 1, Len(mst))
        /\ pc # "error"
        /\ pc = "done" => (mst = MstMain /\ visitados = {"A", "B", "C", "D"})

W10_EjemploMain == grafo = GrafoMain /\ POI_inicial = "A" /\ pc = "done" /\ Len(mst) = 3

-----------------------------------------------------------------------------
(* Properties of the cost model, of termination and of the heap operations *)

\* the edges the state holds: those of the graph and those of the heap
AristasEnUso ==
    {t[3] : t \in Triples(grafo)} \cup {lista[i].arista : i \in 1..Len(lista)}

\* C11: every Closed edge in use weighs +infinity whatever its min and max,
\* every Open edge min + 0.20 * (max - min) and every Cracked edge
\* min + 0.65 * (max - min) + 2, in hundredths; (2, 4, Open) weighs 2.40 and
\* (1, 6, Cracked) weighs 6.25.
C11_PesoEfectivo ==
    \A a \in AristasEnUso :
        /\ a.estado = CERRADO => peso_efectivo(a).inf
        /\ a.estado = HABILITADO =>
               peso_efectivo(a) = [inf |-> FALSE, val |-> 100 * a.min + 20 * (a.max - a.min)]
        /\ a.estado = AGRIETADO =>
               peso_efectivo(a) = [inf |-> FALSE, val |-> 100 * a.min + 65 * (a.max - a.min) + 200]
        /\ a = Arista(2, 4, HABILITADO) => peso_efectivo(a) = [inf |-> FALSE, val |-> 240]
        /\ a = Arista(1, 6, AGRIETADO) => peso_efectivo(a) = [inf |-> FALSE, val |-> 625]

\* a heap that holds the two edges of the example and a Closed edge
W11_TresEstados ==
    /\ pc = "heap"
    /\ \E i \in 1..Len(lista) : lista[i].arista = Arista(2, 4, HABILITADO)
    /\ \E i \in 1..Len(lista) : lista[i].arista = Arista(1, 6, AGRIETADO)
    /\ \E i \in 1..Len(lista) : lista[i].arista.estado = CERRADO

RECURSIVE SumaLongitudes(_, _)
SumaLongitudes(g, K) ==
    IF K = {}
    THEN 0
    ELSE LET u == CHOOSE x \in K : TRUE
         IN  Len(g[u]) + SumaLongitudes(g, K \ {u})

\* the number of adjacency entries of the graph
NumEntradas == SumaLongitudes(grafo, Claves)

\* the most loop iterations prim has left
Medida ==
    IF pc = "call" THEN NumEntradas + 2
    ELSE IF pc = "loop" THEN NumEntradas + 1 - npop
    ELSE 0

\* C12: prim stops after finitely many iterations: it has never made more
\* pushes than the graph has adjacency entries nor more pops than pushes, and
\* every step it takes lowers a measure that is never negative.  (A call that
\* has neither returned nor failed can always step: the guards of PrimStep
\* and PrimReturn are complementary.)
C12_PrimTermina ==
    /\ [](EnPrim => (npush <= NumEntradas /\ npop <= npush /\ Medida >= 0))
    /\ [][EnPrim => Medida' < Medida]_vars

\* a call that returned after at least three iterations
W12_PrimTerminado == pc = "done" /\ npop >= 3 /\ npush >= 3 /\ lista # <<>>

\* how many times the entry e is in the list l
Cuenta(l, e) == Cardinality({i \in 1..Len(l) : l[i] = e})

\* C13: desencolar on a heap of n >= 1 entries returns the root entry, which
\* weighs no more than any other entry, and leaves the other n - 1 entries,
\* for n = 1 as well.
C13_DesencolarDevuelveRaiz ==
    [][(pc = "heap" /\ Len(lista) >= 1 /\ npop' = npop + 1) =>
           /\ err' = "none"
           /\ Len(lista') = Len(lista) - 1
           /\ \A e \in EntradasHeap :
                  Cuenta(lista', e) = Cuenta(lista, e) - (IF e = lista[1] THEN 1 ELSE 0)
           /\ \A i \in 0..(Len(lista) - 1) : MenorIgual(peso(lista, 0), peso(lista, i))
           /\ forma # "mixed" => salida' = Append(salida, lista[1])]_vars

\* C20: encolar on a directly used heap of n entries succeeds and leaves
\* n + 1 entries: the ones it held and the new one, none dropped and none
\* duplicated.  In prim the size of the heap is the number of pushes less the
\* number of pops, and the seeded heap holds the adjacency entries of the
\* start node.
C20_EncolarConservaEntradas ==
    [][/\ (pc = "heap" /\ npush' = npush + 1) =>
              /\ err' = "none"
              /\ Len(lista') = Len(lista) + 1
              /\ \E n \in EntradasHeap : \A e \in EntradasHeap :
                     Cuenta(lista', e) = Cuenta(lista, e) + (IF e = n THEN 1 ELSE 0)
       /\ EnPrim => Len(lista') - Len(lista) = (npush' - npush) - (npop' - npop)
       /\ (pc = "call" /\ pc' = "loop") =>
              \A x \in Entradas :
                  Cuenta(lista', Elemento(POI_inicial, x.vecino, x.arista))
                      = Cuenta(grafo[POI_inicial], x)]_vars

\* a heap filled by pushes only, with an entry pushed twice and entries of
\* three different weights
W20_HeapLleno ==
    /\ pc = "heap"
    /\ npop = 0
    /\ Len(lista) >= 4
    /\ Len(lista) = npush
    /\ \E e \in EntradasHeap : Cuenta(lista, e) = 2
    /\ Menor(peso(lista, 0), peso(lista, 2))
    /\ Menor(peso(lista, 2), peso(lista, 1))

-----------------------------------------------------------------------------
(* Properties of the steps of prim *)

\* the step admits an edge
Admite == EnPrim /\ Len(mst') = Len(mst) + 1

\* C14: the edge (u, v, e) a step admits goes from a visited node to a node
\* that is not visited, and e weighs no more than any adjacency entry of the
\* graph that goes from a visited node to a node that is not visited.
C14_AdmiteElCruceMasBarato ==
    [][Admite =>
           LET t == mst'[Len(mst')]
           IN  /\ t[1] \in visitados
               /\ t[2] \notin visitados
               /\ \A x \in Triples(grafo) :
                      (x[1] \in visitados /\ x[2] \notin visitados) =>
                          MenorIgual(peso_efectivo(t[3]), peso_efectivo(x[3]))]_vars

\* after an admission a heavier entry towards a node not yet visited is
\* still on the heap, below a lighter one
W14_CruceMasCaroEnEspera ==
    /\ pc = "loop"
    /\ Len(mst) >= 2
    /\ Len(lista) >= 3
    /\ \E i \in 1..Len(lista) :
           /\ lista[i].fin \notin visitados
           /\ Menor(peso_efectivo(mst[Len(mst)][3]), peso_efectivo(lista[i].arista))

\* C15: an iteration that pops an entry whose end node is already visited
\* leaves the MST Result and the Visited set as they were and pushes nothing.
C15_EntradaObsoletaDescartada ==
    [][(pc = "loop" /\ condicion_while /\ lista[1].fin \in visitados /\ npop' = npop + 1) =>
           /\ mst' = mst
           /\ visitados' = visitados
           /\ npush' = npush
           /\ Len(lista') = Len(lista) - 1]_vars

\* a call that goes on after an iteration that discarded its entry
W15_HuboDescarte == pc = "loop" /\ err = "none" /\ npop > Len(mst) /\ Len(mst) >= 1

\* C16: the Visited set becomes {start} when prim starts; after that a step
\* that admits an edge adds the end node of that edge, which was not in the
\* set, and nothing else, and any other step leaves the set as it was.
C16_VisitadosSoloCrece ==
    [][EnPrim =>
           /\ pc = "call" => visitados' = {POI_inicial}
           /\ (pc # "call" /\ Admite) =>
                  /\ mst'[Len(mst')][2] \notin visitados
                  /\ visitados' = visitados \cup {mst'[Len(mst')][2]}
           /\ (pc # "call" /\ ~Admite) => visitados' = visitados]_vars

\* three nodes visited, after two steps that admitted and the return, which
\* did not
W16_TresVisitados ==
    /\ pc = "done"
    /\ Cardinality(visitados) = 3
    /\ Len(mst) = 2
    /\ npop = 2

\* C17: no step of prim changes the graph or the start node it was given.
C17_GrafoIntacto ==
    [][EnPrim => (grafo' = grafo /\ POI_inicial' = POI_inicial)]_vars

\* a call that failed after it had admitted an edge of a graph with entries
W17_FalloTrasAdmitir ==
    /\ pc = "error"
    /\ err = "IndexError"
    /\ Len(mst) >= 1
    /\ \A u \in Claves : grafo[u] # <<>>

\* C18: once prim has started, the MST Result is a tree rooted at the start
\* node: it has one edge less than there are visited nodes, no two of its
\* edges end at the same node, none ends at the start node, and each starts
\* at the start node or at the end node of an earlier edge.
C18_MstEsArbol ==
    (EnPrim /\ pc # "call") =>
        /\ Len(mst) = Cardinality(visitados) - 1
        /\ \A i \in 1..Len(mst), j \in 1..Len(mst) : i # j => mst[i][2] # mst[j][2]
        /\ \A i \in 1..Len(mst) : mst[i][2] # POI_inicial
        /\ \A i \in 1..Len(mst) :
               mst[i][1] = POI_inicial \/ \E j \in 1..(i - 1) : mst[j][2] = mst[i][1]

\* a tree of three edges, one of which does not start at the start node
W18_ArbolDeTres ==
    /\ EnPrim
    /\ Len(mst) >= 3
    /\ \E i \in 1..Len(mst) : mst[i][1] # POI_inicial
    /\ \E i \in 1..Len(mst) : mst[i][1] = POI_inicial /\ i > 1

\* C19: every entry of prim's heap and every edge of the MST Result is an
\* adjacency entry of the graph, in the direction the graph lists it, and it
\* starts at a visited node.
C19_EntradasDelGrafo ==
    EnPrim =>
        /\ \A i \in 1..Len(lista) :
               /\ <<lista[i].inicio, lista[i].fin, lista[i].arista>> \in Triples(grafo)
               /\ lista[i].inicio \in visitados
        /\ \A i \in 1..Len(mst) :
               /\ mst[i] \in Triples(grafo)
               /\ mst[i][1] \in visitados

\* a heap with an entry pushed by an admitted node, whose reverse the graph
\* does not list
W19_EntradaDeUnAdmitido ==
    /\ EnPrim
    /\ Len(mst) >= 1
    /\ \E i \in 1..Len(lista) :
           /\ lista[i].inicio # POI_inicial
           /\ <<lista[i].fin, lista[i].inicio, lista[i].arista>> \notin Triples(grafo)

====
